---- MODULE Spec2Model ----
(***************************************************************************)
(* Model of src/index.js: an Express relay in front of an Invidious        *)
(* instance.  The file holds two copies of the server.  Copy 1 (lines      *)
(* 1-214) has the fixed instance origin and the JSON-API search handler;   *)
(* copy 2 (lines 216-400) reads the origin from the environment and has    *)
(* the markup-scraping search handler.  `program` says which copy runs.    *)
(*                                                                         *)
(* JavaScript strings are sequences of one-character strings, so that      *)
(* startsWith, split, trim and concatenation are computed, not assumed.    *)
(***************************************************************************)
EXTENDS Naturals, Sequences, FiniteSets, TLC

VARIABLES
    program,             \* 1 or 2: which copy of the server is running
    INVIDIOUS_INSTANCE,  \* the configured upstream origin (a string)
    pc,                  \* per request: "idle" | "await" | "done"
    request,             \* per request: the incoming HTTP request
    upstream,            \* per request: the state of its axios.get promise
    sent,                \* per request: the outbound GETs issued, in order
    responses,           \* per request: the responses sent, in order
    thrown,              \* per request: the exception its try block raised
    urlPc,               \* getAbsoluteUrl harness: "off"|"input"|"applied"|"reapplied"
    urlPath,             \* getAbsoluteUrl harness: the argument
    urlOut,              \* getAbsoluteUrl harness: getAbsoluteUrl(urlPath)
    urlAgain             \* getAbsoluteUrl harness: getAbsoluteUrl(urlOut)

vars == <<program, INVIDIOUS_INSTANCE, pc, request, upstream, sent, responses,
          thrown, urlPc, urlPath, urlOut, urlAgain>>

serverVars == <<pc, request, upstream, sent, responses, thrown>>
urlVars == <<urlPc, urlPath, urlOut, urlAgain>>

(***************************************************************************)
(* Bounds of the model.                                                    *)
(***************************************************************************)
\* Longest list of items, links or comments in an upstream body.
MaxItems == 2
\* Longest path tail (after an optional scheme) handed to getAbsoluteUrl.
MaxPathLen == 3

\* The requests in flight at once: two, enough for one to be stuck while
\* the other is served.
Reqs == {"r1", "r2"}

(***************************************************************************)
(* JavaScript values and strings.                                          *)
(***************************************************************************)
Null == [t |-> "null", s |-> <<>>]
Undefined == [t |-> "undefined", s |-> <<>>]
Str(s) == [t |-> "string", s |-> s]

\* !v for the values the handlers test: null, undefined and "" are falsy.
Falsy(v) == v.t \in {"null", "undefined"} \/ (v.t = "string" /\ v.s = <<>>)

\* String.prototype.startsWith
StartsWith(s, p) == Len(s) >= Len(p) /\ SubSeq(s, 1, Len(p)) = p

\* String.prototype.indexOf, 1-based; 0 when sub does not occur.
IndexOf(s, sub) ==
    LET hits == {i \in 1..(Len(s) + 1) :
                    i + Len(sub) - 1 <= Len(s) /\ SubSeq(s, i, i + Len(sub) - 1) = sub}
    IN IF hits = {} THEN 0 ELSE CHOOSE i \in hits : \A j \in hits : i <= j

\* String.prototype.includes
Includes(s, sub) == IndexOf(s, sub) > 0

\* String.prototype.replace with a string pattern: the first occurrence only.
ReplaceFirst(s, sub, rep) ==
    LET i == IndexOf(s, sub)
    IN IF i = 0 THEN s
       ELSE SubSeq(s, 1, i - 1) \o rep \o SubSeq(s, i + Len(sub), Len(s))

\* String.prototype.trim, for the one whitespace character of the model.
Trim(s) ==
    LET keep == {i \in 1..Len(s) : s[i] # " "}
    IN IF keep = {} THEN <<>>
       ELSE SubSeq(s, CHOOSE i \in keep : \A j \in keep : i <= j,
                      CHOOSE i \in keep : \A j \in keep : i >= j)

\* s.split(sep)[1]: the piece between the first and the second occurrence
\* of sep; undefined when sep does not occur in s.
SplitSecond(s, sep) ==
    LET i == IndexOf(s, sep)
    IN IF i = 0 THEN Undefined
       ELSE LET rest == SubSeq(s, i + Len(sep), Len(s))
                j == IndexOf(rest, sep)
            IN Str(IF j = 0 THEN rest ELSE SubSeq(rest, 1, j - 1))

\* encodeURIComponent on the characters of the model: letters and digits
\* are kept, a space becomes %20, "/" %2F, "=" %3D, "?" %3F.
RECURSIVE encodeURIComponent(_)
encodeURIComponent(s) ==
    IF s = <<>> THEN <<>>
    ELSE (CASE Head(s) = " " -> <<"%", "2", "0">>
            [] Head(s) = "/" -> <<"%", "2", "F">>
            [] Head(s) = "=" -> <<"%", "3", "D">>
            [] Head(s) = "?" -> <<"%", "3", "F">>
            [] OTHER -> <<Head(s)>>) \o encodeURIComponent(Tail(s))

HttpScheme == <<"h", "t", "t", "p", ":", "/", "/">>
HttpsScheme == <<"h", "t", "t", "p", "s", ":", "/", "/">>

\* 'https://lekker.gay'
DefaultInstance ==
    HttpsScheme \o <<"l", "e", "k", "k", "e", "r", ".", "g", "a", "y">>

\* Values of process.env.INVIDIOUS_INSTANCE: unset, or an origin written
\* without or with a trailing slash.
EnvInstances ==
    {Undefined,
     Str(HttpScheme \o <<"i", "v">>),
     Str(HttpScheme \o <<"i", "v", "/">>)}

\* const INVIDIOUS_INSTANCE = ... : fixed in copy 1, env || default in copy 2.
ConfiguredInstance(prog, env) ==
    IF prog = 1 THEN DefaultInstance
    ELSE IF Falsy(env) THEN DefaultInstance ELSE env.s

(***************************************************************************)
(* getAbsoluteUrl                                                          *)
(***************************************************************************)
getAbsoluteUrl(path) ==
    IF Falsy(path) THEN Null
    ELSE IF StartsWith(path.s, HttpScheme) \/ StartsWith(path.s, HttpsScheme)
         THEN path
         ELSE Str(INVIDIOUS_INSTANCE
                  \o (IF StartsWith(path.s, <<"/">>) THEN <<>> ELSE <<"/">>)
                  \o path.s)

(***************************************************************************)
(* Exceptions and results of calls that may throw.                         *)
(***************************************************************************)
NoError == [name |-> "", message |-> ""]
\* Calling a value that is not a function.
NotAFunction == [name |-> "TypeError", message |-> "$ is not a function"]
\* data.map on a value that is not an array.
MapNotAFunction == [name |-> "TypeError", message |-> "data.map is not a function"]
\* item.type on null.
NullProperty == [name |-> "TypeError", message |-> "Cannot read properties of null"]
\* cheerio.load on a value it cannot parse.
LoadError == [name |-> "Error", message |-> "cheerio.load() expects a string"]

Ok(v) == [threw |-> FALSE, err |-> NoError, v |-> v]
Throw(e) == [threw |-> TRUE, err |-> e, v |-> Undefined]

\* The error of the first call, in evaluation order, that threw.
FirstThrow(rs) ==
    LET bad == {i \in 1..Len(rs) : rs[i].threw}
    IN rs[CHOOSE i \in bad : \A j \in bad : i <= j].err

(***************************************************************************)
(* The document tree and the cheerio calls the handlers make.              *)
(* An element carries the selector it matches, its href and src            *)
(* attributes, its own text and its child elements.                        *)
(***************************************************************************)
El(sel, href, src, text, children) ==
    [sel |-> sel, href |-> href, src |-> src, text |-> text, children |-> children]

\* A Cheerio selection ($(element), .find(...), $('sel')): an object that
\* holds nodes and is NOT callable.
Selection(nodes) == [callable |-> FALSE, nodes |-> nodes]

\* The function cheerio.load returns: callable, and searching the document.
Root(nodes) == [callable |-> TRUE, nodes |-> nodes]

RECURSIVE ChildrenOf(_)
ChildrenOf(nodes) ==
    IF nodes = <<>> THEN <<>> ELSE Head(nodes).children \o ChildrenOf(Tail(nodes))

Matching(nodes, selector) == SelectSeq(nodes, LAMBDA n : n.sel = selector)

\* $(selector) on the document
Query(root, selector) == Selection(Matching(root.nodes, selector))
\* $(element)
Wrap(element) == Selection(<<element>>)
\* selection.find(selector)
Find(selection, selector) == Selection(Matching(ChildrenOf(selection.nodes), selector))

\* selection.text(): the texts of the nodes, concatenated
RECURSIVE TextOf(_)
TextOf(nodes) ==
    IF nodes = <<>> THEN <<>> ELSE Head(nodes).text \o TextOf(Tail(nodes))

\* selection.attr(name): the attribute of the first node
AttrOf(nodes, name) ==
    IF name = "href" THEN Head(nodes).href
    ELSE IF name = "src" THEN Head(nodes).src
    ELSE Undefined

\* An argument the caller left out.
NoArg == "undefined"

\* const getText = ($, selector) => { const element = $(selector); ... }
\* `dollar` is whatever the caller passed first: $(selector) calls it.
getText(dollar, selector) ==
    IF ~dollar.callable THEN Throw(NotAFunction)
    ELSE LET element == Query(dollar, selector)
         IN Ok(IF Len(element.nodes) > 0 THEN Str(Trim(TextOf(element.nodes))) ELSE Null)

\* const getAttr = ($, selector, attr) => { const element = $(selector); ... }
getAttr(dollar, selector, attr) ==
    IF ~dollar.callable THEN Throw(NotAFunction)
    ELSE LET element == Query(dollar, selector)
         IN Ok(IF Len(element.nodes) > 0 THEN AttrOf(element.nodes, attr) ELSE Null)

(***************************************************************************)
(* Upstream reply bodies (axios' `data`).                                  *)
(***************************************************************************)
\* A string body holding a page with these elements.
Html(elems) ==
    [kind |-> "html", wellFormed |-> TRUE, elems |-> elems, isArray |-> FALSE, items |-> <<>>]
\* A string body that is not the page asked for (truncated or foreign
\* markup, plain text): it parses, and holds none of the elements.
Garbage ==
    [kind |-> "html", wellFormed |-> FALSE, elems |-> <<>>, isArray |-> FALSE, items |-> <<>>]
\* A JSON body that axios parsed into an array of items.
JsonArray(items) ==
    [kind |-> "json", wellFormed |-> TRUE, elems |-> <<>>, isArray |-> TRUE, items |-> items]
\* A JSON body that axios parsed into an object (an error document).
JsonObject ==
    [kind |-> "json", wellFormed |-> TRUE, elems |-> <<>>, isArray |-> FALSE, items |-> <<>>]

SeqsUpTo(S, n) == UNION {[1..k -> S] : k \in 0..n}

ListSel == ".pure-g.loop > .pure-u-1"
LinkSel == "a.pure-button.pure-button-primary"
CommentSel == ".comment-wrapper"

WatchHref == <<"/", "w", "?", "v", "=", "a", "b">>

\* A list entry with its link to a video, one whose link carries no v=,
\* and one with no link at all.
ItemKinds ==
    {El(ListSel, Undefined, Undefined, <<>>,
        <<El("h3 a", Str(WatchHref), Undefined, <<"T">>, <<>>),
          El("img", Undefined, Str(<<"/", "i">>), <<>>, <<>>)>>),
     El(ListSel, Undefined, Undefined, <<>>,
        <<El("h3 a", Str(<<"/", "c">>), Undefined, <<"C">>, <<>>)>>),
     El(ListSel, Undefined, Undefined, <<>>, <<>>)}

DownloadText == <<"D", "o", "w", "n", "l", "o", "a", "d">>

\* A download link, and a primary button that is not one.
LinkKinds ==
    {El(LinkSel, Str(<<"/", "d">>), Undefined, DownloadText \o <<" ", "m", "p", "4">>, <<>>),
     El(LinkSel, Str(<<"/", "s">>), Undefined, <<"S", "u", "b">>, <<>>)}

TitleEl == El(".video-title", Undefined, Undefined, <<"T">>, <<>>)

\* A comment with author and content, and an empty wrapper.
CommentKinds ==
    {El(CommentSel, Undefined, Undefined, <<>>,
        <<El(".comment-author", Undefined, Undefined, <<"A">>, <<>>),
          El(".comment-content", Undefined, Undefined, <<"x">>, <<>>)>>),
     El(CommentSel, Undefined, Undefined, <<>>, <<>>)}

ApiItem(isNull, type, videoId, thumbnail, viewCount) ==
    [isNull |-> isNull, type |-> type, videoId |-> videoId, title |-> Str(<<"T">>),
     author |-> Str(<<"A">>), videoThumbnailUrl |-> Undefined, thumbnail |-> thumbnail,
     viewCount |-> viewCount, publishedText |-> Undefined]

\* A video, a video entry without videoId, a channel, and a null entry.
ApiItemKinds ==
    {ApiItem(FALSE, "video", Str(<<"a", "b">>), Str(<<"/", "i">>), Str(<<"7">>)),
     ApiItem(FALSE, "video", Undefined, Undefined, Undefined),
     ApiItem(FALSE, "channel", Undefined, Undefined, Undefined),
     ApiItem(TRUE, "", Undefined, Undefined, Undefined)}

ListPages == {Html(s) : s \in SeqsUpTo(ItemKinds, MaxItems)}
WatchPages ==
    {Html(s \o t) : s \in SeqsUpTo(LinkKinds, MaxItems), t \in {<<>>, <<TitleEl>>}}
CommentPages == {Html(s) : s \in SeqsUpTo(CommentKinds, MaxItems)}
ApiBodies == {JsonArray(s) : s \in SeqsUpTo(ApiItemKinds, MaxItems)}

(***************************************************************************)
(* Responses.                                                              *)
(***************************************************************************)
\* res.status(status).json({ error: message })
ErrorResponse(status, message) ==
    [status |-> status, type |-> "json", shape |-> "error", error |-> message,
     text |-> "", data |-> <<>>]
\* res.json(array)
ArrayResponse(items) ==
    [status |-> 200, type |-> "json", shape |-> "array", error |-> "",
     text |-> "", data |-> items]
\* res.json(object)
ObjectResponse(obj) ==
    [status |-> 200, type |-> "json", shape |-> "object", error |-> "",
     text |-> "", data |-> <<obj>>]
\* res.status(status).send(text)
TextResponse(status, text) ==
    [status |-> status, type |-> "text", shape |-> "text", error |-> "",
     text |-> text, data |-> <<>>]

\* What a try block came to: the response it sent, or the exception it threw.
Sent(resp) == [threw |-> FALSE, err |-> NoError, resp |-> resp]
Failed(e) == [threw |-> TRUE, err |-> e, resp |-> TextResponse(0, "")]

(***************************************************************************)
(* cheerio.load(data).  A string is parsed leniently whatever it holds.    *)
(* For a value that is no string the outcome depends on the cheerio        *)
(* version: `lenient` chooses between an empty document and an exception.  *)
(***************************************************************************)
Load(data, lenient) ==
    IF data.kind = "html"
    THEN [threw |-> FALSE, err |-> NoError,
          root |-> Root(data.elems \o ChildrenOf(data.elems))]
    ELSE IF lenient
         THEN [threw |-> FALSE, err |-> NoError, root |-> Root(<<>>)]
         ELSE [threw |-> TRUE, err |-> LoadError, root |-> Root(<<>>)]

(***************************************************************************)
(* The each-callback of /api/popular and of the markup /api/search.        *)
(***************************************************************************)
CbThrow(e) == [threw |-> TRUE, err |-> e, skip |-> FALSE, item |-> <<>>]
CbSkip == [threw |-> FALSE, err |-> NoError, skip |-> TRUE, item |-> <<>>]
CbItem(x) == [threw |-> FALSE, err |-> NoError, skip |-> FALSE, item |-> <<x>>]

\* x?.split('v=')[1]
VideoIdOf(href) ==
    IF href.t = "string" THEN SplitSecond(href.s, <<"v", "=">>) ELSE Undefined

SummaryCallback(element) ==
    LET anchor == Find(Wrap(element), "h3 a")
        href == getAttr(anchor, "href", NoArg)
    IN IF href.threw THEN CbThrow(href.err)
       ELSE LET videoId == VideoIdOf(href.v)
            IN IF Falsy(videoId) THEN CbSkip
               ELSE LET title == getText(anchor, NoArg)
                        thumbnail == getAttr(Find(Wrap(element), "img"), "src", NoArg)
                        author == getText(Find(Wrap(element), ".channel-name"), NoArg)
                        views == getText(Find(Wrap(element), ".stat:contains(\"views\")"), NoArg)
                        uploadedAt == getText(Find(Wrap(element), ".stat:contains(\"ago\")"), NoArg)
                        url == getAttr(anchor, "href", NoArg)
                        calls == <<title, thumbnail, author, views, uploadedAt, url>>
                    IN IF \E i \in 1..Len(calls) : calls[i].threw
                       THEN CbThrow(FirstThrow(calls))
                       ELSE CbItem([title |-> title.v, videoId |-> videoId,
                                    thumbnail |-> thumbnail.v, author |-> author.v,
                                    views |-> views.v, uploadedAt |-> uploadedAt.v,
                                    url |-> getAbsoluteUrl(url.v)])

\* selection.each(callback): an exception in the callback ends the loop and
\* leaves each().
RECURSIVE EachSummary(_, _)
EachSummary(nodes, acc) ==
    IF nodes = <<>> THEN [threw |-> FALSE, err |-> NoError, out |-> acc]
    ELSE LET c == SummaryCallback(Head(nodes))
         IN IF c.threw THEN [threw |-> TRUE, err |-> c.err, out |-> <<>>]
            ELSE EachSummary(Tail(nodes), acc \o c.item)

\* The try block of /api/popular after the await.
PopularTry(data, lenient) ==
    LET l == Load(data, lenient)
    IN IF l.threw THEN Failed(l.err)
       ELSE LET e == EachSummary(Query(l.root, ListSel).nodes, <<>>)
            IN IF e.threw THEN Failed(e.err) ELSE Sent(ArrayResponse(e.out))

\* The try block of the markup /api/search after the await.
SearchMarkupTry(data, lenient) ==
    LET l == Load(data, lenient)
    IN IF l.threw THEN Failed(l.err)
       ELSE LET e == EachSummary(Query(l.root, ListSel).nodes, <<>>)
            IN IF e.threw THEN Failed(e.err) ELSE Sent(ArrayResponse(e.out))

(***************************************************************************)
(* The JSON-API /api/search.                                               *)
(***************************************************************************)
\* a || b
OrElse(a, b) == IF Falsy(a) THEN b ELSE a

\* `${v}` in a template literal
Interpolate(v) ==
    IF v.t = "string" THEN v.s
    ELSE IF v.t = "undefined" THEN <<"u", "n", "d", "e", "f", "i", "n", "e", "d">>
    ELSE <<"n", "u", "l", "l">>

MapApiItem(item) ==
    [title |-> item.title,
     videoId |-> item.videoId,
     thumbnail |-> getAbsoluteUrl(OrElse(item.videoThumbnailUrl, item.thumbnail)),
     author |-> item.author,
     views |-> IF Falsy(item.viewCount) THEN Null
               ELSE Str(item.viewCount.s \o <<" ", "v", "i", "e", "w", "s">>),
     uploadedAt |-> item.publishedText,
     url |-> getAbsoluteUrl(Str(<<"/", "w", "a", "t", "c", "h", "?", "v", "=">>
                                \o Interpolate(item.videoId)))]

\* data.map(item => item.type === 'video' ? {...} : null).filter(x => x !== null)
SearchApiTry(data) ==
    IF ~(data.kind = "json" /\ data.isArray) THEN Failed(MapNotAFunction)
    ELSE IF \E i \in 1..Len(data.items) : data.items[i].isNull THEN Failed(NullProperty)
    ELSE LET videos == SelectSeq(data.items, LAMBDA it : it.type = "video")
         IN Sent(ArrayResponse([i \in 1..Len(videos) |-> MapApiItem(videos[i])]))

(***************************************************************************)
(* /api/video/:videoId and /api/comments/:videoId                          *)
(***************************************************************************)
FormatCallback(element) ==
    LET href == getAttr(Wrap(element), "href", NoArg)
    IN IF href.threw THEN CbThrow(href.err)
       ELSE LET text == getText(Wrap(element), NoArg)
            IN IF text.threw THEN CbThrow(text.err)
               ELSE IF ~Falsy(href.v) /\ ~Falsy(text.v) /\ Includes(text.v.s, DownloadText)
                    THEN CbItem([format |-> Str(ReplaceFirst(text.v.s,
                                                   DownloadText \o <<" ">>, <<>>)),
                                 url |-> getAbsoluteUrl(href.v)])
                    ELSE CbSkip

RECURSIVE EachFormat(_, _)
EachFormat(nodes, acc) ==
    IF nodes = <<>> THEN [threw |-> FALSE, err |-> NoError, out |-> acc]
    ELSE LET c == FormatCallback(Head(nodes))
         IN IF c.threw THEN [threw |-> TRUE, err |-> c.err, out |-> <<>>]
            ELSE EachFormat(Tail(nodes), acc \o c.item)

VideoTry(data, lenient, url) ==
    LET l == Load(data, lenient)
    IN IF l.threw THEN Failed(l.err)
       ELSE LET e == EachFormat(Query(l.root, LinkSel).nodes, <<>>)
            IN IF e.threw THEN Failed(e.err)
               ELSE LET title == getText(Query(l.root, ".video-title"), NoArg)
                        author == getText(Query(l.root, ".channel-name"), NoArg)
                        views == getText(Query(l.root, ".stat:contains(\"views\")"), NoArg)
                        uploadedAt == getText(Query(l.root, ".stat:contains(\"ago\")"), NoArg)
                        description == getText(Query(l.root, "#description"), NoArg)
                        calls == <<title, author, views, uploadedAt, description>>
                    IN IF \E i \in 1..Len(calls) : calls[i].threw
                       THEN Failed(FirstThrow(calls))
                       ELSE Sent(ObjectResponse(
                                [title |-> title.v, author |-> author.v, views |-> views.v,
                                 uploadedAt |-> uploadedAt.v, description |-> description.v,
                                 formats |-> e.out, invidiousWatchUrl |-> url]))

CommentCallback(element) ==
    LET author == getText(Find(Wrap(element), ".comment-author"), NoArg)
        text == getText(Find(Wrap(element), ".comment-content"), NoArg)
        time == getText(Find(Wrap(element), ".comment-header .time"), NoArg)
        likes == getText(Find(Wrap(element), ".comment-header .likes"), NoArg)
        calls == <<author, text, time, likes>>
    IN IF \E i \in 1..Len(calls) : calls[i].threw
       THEN CbThrow(FirstThrow(calls))
       ELSE CbItem([author |-> author.v, text |-> text.v, time |-> time.v,
                    likes |-> likes.v])

RECURSIVE EachComment(_, _)
EachComment(nodes, acc) ==
    IF nodes = <<>> THEN [threw |-> FALSE, err |-> NoError, out |-> acc]
    ELSE LET c == CommentCallback(Head(nodes))
         IN IF c.threw THEN [threw |-> TRUE, err |-> c.err, out |-> <<>>]
            ELSE EachComment(Tail(nodes), acc \o c.item)

CommentsTry(data, lenient) ==
    LET l == Load(data, lenient)
    IN IF l.threw THEN Failed(l.err)
       ELSE LET e == EachComment(Query(l.root, CommentSel).nodes, <<>>)
            IN IF e.threw THEN Failed(e.err) ELSE Sent(ArrayResponse(e.out))

(***************************************************************************)
(* The catch blocks: each answers with its handler's fixed message.        *)
(***************************************************************************)
PopularCatch(error) == ErrorResponse(500, "Failed to fetch popular videos")
SearchApiCatch(error) ==
    ErrorResponse(500, "Failed to fetch search results from Invidious API")
SearchMarkupCatch(error) == ErrorResponse(500, "Failed to fetch search results")
\* A catch block that hands the caught error's message to the client.
VideoCatchLeaky(error) == ErrorResponse(500, error.message)
VideoCatch(error) == ErrorResponse(500, "Failed to fetch video information")
CommentsCatch(error) == ErrorResponse(500, "Failed to fetch comments")

(***************************************************************************)
(* Incoming requests and Express routing.                                  *)
(* A request is GET base[/seg][?q=...].  A route with a :videoId parameter *)
(* matches only a non-empty segment; a route without one matches only the  *)
(* bare base.  A request no route matches is answered 404 by Express.      *)
(***************************************************************************)
Req(base, seg, q) == [base |-> base, seg |-> seg, q |-> q]
NoRequest == Req("", <<>>, Undefined)

Lofi == <<"l", "o", "f", "i">>
VideoIds == {<<>>, <<"a", "b">>}

HttpRequests ==
    {Req("/api/popular", <<>>, Undefined), Req("/health", <<>>, Undefined)}
    \cup {Req("/api/search", <<>>, q) : q \in {Undefined, Str(<<>>), Str(Lofi)}}
    \cup {Req(b, id, Undefined) : b \in {"/api/video", "/api/comments"}, id \in VideoIds}

ParamRoutes == {"/api/video", "/api/comments"}
PlainRoutes == {"/api/popular", "/api/search", "/health"}

\* app.get(route, handler): does the request reach the handler?
RouteMatches(route, req) ==
    /\ req.base = route
    /\ IF route \in ParamRoutes THEN req.seg # <<>> ELSE req.seg = <<>>

(***************************************************************************)
(* The upstream: the promise of axios.get, and what the instance serves.   *)
(***************************************************************************)
NoData ==
    [kind |-> "none", wellFormed |-> FALSE, elems |-> <<>>, isArray |-> FALSE, items |-> <<>>]
NoUpstream == [state |-> "none", data |-> NoData, err |-> NoError]
Pending == [state |-> "pending", data |-> NoData, err |-> NoError]

\* A non-2xx status and a network error, as axios rejects with them.
AxiosErrors ==
    {[name |-> "AxiosError", message |-> "Request failed with status code 502"],
     [name |-> "AxiosError", message |-> "connect ECONNREFUSED"]}

Url(path, arg) == [origin |-> INVIDIOUS_INSTANCE, path |-> path, arg |-> arg]

\* The bodies the instance may answer a GET with: the page or document the
\* path stands for, a body that is not that page, or a JSON object.
Serves(url) ==
    (CASE url.path = "/feed/popular" -> ListPages
       [] url.path = "/search?q=" -> ListPages
       [] url.path = "/api/v1/search?q=" -> ApiBodies
       [] url.path = "/watch?v=" -> WatchPages
       [] url.path = "/comments/" -> CommentPages)
    \cup {Garbage, JsonObject}

LastSent(r) == sent[r][Len(sent[r])]

\* await axios.get(url): one outbound GET, and the handler suspends.
Issue(r, req, url) ==
    /\ request' = [request EXCEPT ![r] = req]
    /\ sent' = [sent EXCEPT ![r] = Append(@, url)]
    /\ upstream' = [upstream EXCEPT ![r] = Pending]
    /\ pc' = [pc EXCEPT ![r] = "await"]
    /\ UNCHANGED <<responses, thrown>>

\* A response sent without any outbound request.
Reply(r, req, resp) ==
    /\ request' = [request EXCEPT ![r] = req]
    /\ responses' = [responses EXCEPT ![r] = Append(@, resp)]
    /\ pc' = [pc EXCEPT ![r] = "done"]
    /\ UNCHANGED <<sent, upstream, thrown>>

\* The rest of a handler once its promise settled: the try block's
\* response, or the catch block's when the promise rejected or the try
\* block threw.
Finish(r, outcome, caught) ==
    /\ responses' = [responses EXCEPT ![r] =
                        Append(@, IF outcome.threw THEN caught ELSE outcome.resp)]
    /\ thrown' = [thrown EXCEPT ![r] = outcome.err]
    /\ pc' = [pc EXCEPT ![r] = "done"]
    /\ UNCHANGED <<request, sent, upstream>>

Settled(r) == upstream[r].state \in {"resolved", "rejected"}

UpstreamResolve(r) ==
    /\ upstream[r].state = "pending"
    /\ \E d \in Serves(LastSent(r)) :
          upstream' = [upstream EXCEPT ![r] = [state |-> "resolved", data |-> d, err |-> NoError]]
    /\ UNCHANGED <<program, INVIDIOUS_INSTANCE, pc, request, sent, responses, thrown, urlVars>>

UpstreamReject(r) ==
    /\ upstream[r].state = "pending"
    /\ \E e \in AxiosErrors :
          upstream' = [upstream EXCEPT ![r] = [state |-> "rejected", data |-> NoData, err |-> e]]
    /\ UNCHANGED <<program, INVIDIOUS_INSTANCE, pc, request, sent, responses, thrown, urlVars>>

\* The upstream accepts the connection and never answers: no timeout is
\* set, so the promise stays pending for ever.
UpstreamHang(r) ==
    /\ upstream[r].state = "pending"
    /\ upstream' = [upstream EXCEPT ![r] = [state |-> "hung", data |-> NoData, err |-> NoError]]
    /\ UNCHANGED <<program, INVIDIOUS_INSTANCE, pc, request, sent, responses, thrown, urlVars>>

(***************************************************************************)
(* The handlers.                                                           *)
(***************************************************************************)
Popular(r) ==
    /\ pc[r] = "idle"
    /\ \E req \in HttpRequests :
          /\ RouteMatches("/api/popular", req)
          /\ Issue(r, req, Url("/feed/popular", <<>>))
    /\ UNCHANGED <<program, INVIDIOUS_INSTANCE, urlVars>>

\* A handler that issues the GET again when it was rejected.
PopularResumeRetry(r) ==
    /\ pc[r] = "await" /\ request[r].base = "/api/popular" /\ Settled(r)
    /\ IF upstream[r].state = "rejected"
       THEN /\ sent' = [sent EXCEPT ![r] = Append(@, Url("/feed/popular", <<>>))]
            /\ upstream' = [upstream EXCEPT ![r] = Pending]
            /\ UNCHANGED <<pc, request, responses, thrown>>
       ELSE \E lenient \in BOOLEAN :
               Finish(r, PopularTry(upstream[r].data, lenient), PopularCatch(NoError))
    /\ UNCHANGED <<program, INVIDIOUS_INSTANCE, urlVars>>

PopularResume(r) ==
    /\ pc[r] = "await" /\ request[r].base = "/api/popular" /\ Settled(r)
    /\ \E lenient \in BOOLEAN :
          LET outcome == IF upstream[r].state = "rejected" THEN Failed(upstream[r].err)
                         ELSE PopularTry(upstream[r].data, lenient)
          IN Finish(r, outcome, PopularCatch(outcome.err))
    /\ UNCHANGED <<program, INVIDIOUS_INSTANCE, urlVars>>

\* Copy 1: the JSON-API search.
SearchApi(r) ==
    /\ pc[r] = "idle" /\ program = 1
    /\ \E req \in HttpRequests :
          /\ RouteMatches("/api/search", req)
          /\ IF Falsy(req.q)
             THEN Reply(r, req, ErrorResponse(400, "Query parameter \"q\" is required."))
             ELSE Issue(r, req, Url("/api/v1/search?q=", encodeURIComponent(req.q.s)))
    /\ UNCHANGED <<program, INVIDIOUS_INSTANCE, urlVars>>

SearchApiResume(r) ==
    /\ pc[r] = "await" /\ request[r].base = "/api/search" /\ program = 1 /\ Settled(r)
    /\ LET outcome == IF upstream[r].state = "rejected" THEN Failed(upstream[r].err)
                      ELSE SearchApiTry(upstream[r].data)
       IN Finish(r, outcome, SearchApiCatch(outcome.err))
    /\ UNCHANGED <<program, INVIDIOUS_INSTANCE, urlVars>>

\* Copy 2: the markup search.
SearchMarkup(r) ==
    /\ pc[r] = "idle" /\ program = 2
    /\ \E req \in HttpRequests :
          /\ RouteMatches("/api/search", req)
          /\ IF Falsy(req.q)
             THEN Reply(r, req, ErrorResponse(400, "Query parameter \"q\" is required."))
             ELSE Issue(r, req, Url("/search?q=", encodeURIComponent(req.q.s)))
    /\ UNCHANGED <<program, INVIDIOUS_INSTANCE, urlVars>>

SearchMarkupResume(r) ==
    /\ pc[r] = "await" /\ request[r].base = "/api/search" /\ program = 2 /\ Settled(r)
    /\ \E lenient \in BOOLEAN :
          LET outcome == IF upstream[r].state = "rejected" THEN Failed(upstream[r].err)
                         ELSE SearchMarkupTry(upstream[r].data, lenient)
          IN Finish(r, outcome, SearchMarkupCatch(outcome.err))
    /\ UNCHANGED <<program, INVIDIOUS_INSTANCE, urlVars>>

\* req.params.videoId of a matched request
VideoIdParam(req) == Str(req.seg)

Video(r) ==
    /\ pc[r] = "idle"
    /\ \E req \in HttpRequests :
          /\ RouteMatches("/api/video", req)
          /\ IF Falsy(VideoIdParam(req))
             THEN Reply(r, req, ErrorResponse(400, "Video ID is required."))
             ELSE Issue(r, req, Url("/watch?v=", encodeURIComponent(VideoIdParam(req).s)))
    /\ UNCHANGED <<program, INVIDIOUS_INSTANCE, urlVars>>

VideoResume(r) ==
    /\ pc[r] = "await" /\ request[r].base = "/api/video" /\ Settled(r)
    /\ \E lenient \in BOOLEAN :
          LET outcome == IF upstream[r].state = "rejected" THEN Failed(upstream[r].err)
                         ELSE VideoTry(upstream[r].data, lenient, LastSent(r))
          IN Finish(r, outcome, VideoCatch(outcome.err))
    /\ UNCHANGED <<program, INVIDIOUS_INSTANCE, urlVars>>

Comments(r) ==
    /\ pc[r] = "idle"
    /\ \E req \in HttpRequests :
          /\ RouteMatches("/api/comments", req)
          /\ IF Falsy(VideoIdParam(req))
             THEN Reply(r, req, ErrorResponse(400, "Video ID is required."))
             ELSE Issue(r, req, Url("/comments/", encodeURIComponent(VideoIdParam(req).s)))
    /\ UNCHANGED <<program, INVIDIOUS_INSTANCE, urlVars>>

CommentsResume(r) ==
    /\ pc[r] = "await" /\ request[r].base = "/api/comments" /\ Settled(r)
    /\ \E lenient \in BOOLEAN :
          LET outcome == IF upstream[r].state = "rejected" THEN Failed(upstream[r].err)
                         ELSE CommentsTry(upstream[r].data, lenient)
          IN Finish(r, outcome, CommentsCatch(outcome.err))
    /\ UNCHANGED <<program, INVIDIOUS_INSTANCE, urlVars>>

\* A health reply that first looks at the upstream calls in flight.
HealthReplyProbing ==
    IF \E s \in Reqs : upstream[s].state \in {"hung", "rejected"}
    THEN TextResponse(503, "Upstream unavailable")
    ELSE TextResponse(200, "OK")

\* res.status(200).send('OK')
HealthReply == TextResponse(200, "OK")

Health(r) ==
    /\ pc[r] = "idle"
    /\ \E req \in HttpRequests :
          /\ RouteMatches("/health", req)
          /\ Reply(r, req, HealthReply)
    /\ UNCHANGED <<program, INVIDIOUS_INSTANCE, urlVars>>

\* No app.get route matches: Express answers 404 itself.
NotFound(r) ==
    /\ pc[r] = "idle"
    /\ \E req \in HttpRequests :
          /\ \A route \in ParamRoutes \cup PlainRoutes : ~RouteMatches(route, req)
          /\ Reply(r, req, TextResponse(404, "Cannot GET"))
    /\ UNCHANGED <<program, INVIDIOUS_INSTANCE, urlVars>>

(***************************************************************************)
(* The server.                                                             *)
(***************************************************************************)
InitServer ==
    /\ program \in {1, 2}
    /\ INVIDIOUS_INSTANCE \in {ConfiguredInstance(program, env) : env \in EnvInstances}
    /\ pc = [r \in Reqs |-> "idle"]
    /\ request = [r \in Reqs |-> NoRequest]
    /\ upstream = [r \in Reqs |-> NoUpstream]
    /\ sent = [r \in Reqs |-> <<>>]
    /\ responses = [r \in Reqs |-> <<>>]
    /\ thrown = [r \in Reqs |-> NoError]

Init ==
    /\ InitServer
    /\ urlPc = "off" /\ urlPath = Null /\ urlOut = Null /\ urlAgain = Null

Next ==
    \E r \in Reqs :
        \/ Popular(r) \/ PopularResume(r)
        \/ SearchApi(r) \/ SearchApiResume(r)
        \/ SearchMarkup(r) \/ SearchMarkupResume(r)
        \/ Video(r) \/ VideoResume(r)
        \/ Comments(r) \/ CommentsResume(r)
        \/ Health(r) \/ NotFound(r)
        \/ UpstreamResolve(r) \/ UpstreamReject(r) \/ UpstreamHang(r)

Spec == Init /\ [][Next]_vars

(***************************************************************************)
(* getAbsoluteUrl on its own: every configured origin, every path.         *)
(***************************************************************************)
PathInputs ==
    {Null, Undefined}
    \cup {Str(p \o t) : p \in {<<>>, HttpScheme, HttpsScheme},
                        t \in SeqsUpTo({"/", "a"}, MaxPathLen)}

InitUrl ==
    /\ InitServer
    /\ urlPc = "input" /\ urlPath \in PathInputs /\ urlOut = Null /\ urlAgain = Null

UrlApply ==
    /\ urlPc = "input"
    /\ urlOut' = getAbsoluteUrl(urlPath)
    /\ urlPc' = "applied"
    /\ UNCHANGED <<program, INVIDIOUS_INSTANCE, serverVars, urlPath, urlAgain>>

UrlReapply ==
    /\ urlPc = "applied"
    /\ urlAgain' = getAbsoluteUrl(urlOut)
    /\ urlPc' = "reapplied"
    /\ UNCHANGED <<program, INVIDIOUS_INSTANCE, serverVars, urlPath, urlOut>>

NextUrl == UrlApply \/ UrlReapply

SpecUrl == InitUrl /\ [][NextUrl]_vars

(***************************************************************************)
(* Vocabulary of the properties.                                           *)
(***************************************************************************)
ApiRoutes == {"/api/popular", "/api/search", "/api/video", "/api/comments"}
IsApi(r) == request[r].base \in ApiRoutes
Done(r) == pc[r] = "done"
Resp(r) == responses[r][1]
Resolved(r) == upstream[r].state = "resolved"
Rejected(r) == upstream[r].state = "rejected"
UsesJsonApi(r) == request[r].base = "/api/search" /\ program = 1
UsesMarkup(r) == IsApi(r) /\ ~UsesJsonApi(r)

\* The upstream answered with a body of the kind the handler asks for: a
\* well-formed page, or for the JSON-API search an array of objects.
ExpectedBody(r) ==
    /\ Resolved(r)
    /\ IF UsesJsonApi(r)
       THEN /\ upstream[r].data.kind = "json" /\ upstream[r].data.isArray
            /\ \A i \in 1..Len(upstream[r].data.items) : ~upstream[r].data.items[i].isNull
       ELSE upstream[r].data.kind = "html" /\ upstream[r].data.wellFormed

\* The upstream answered with a body that is not of that kind.
MalformedBody(r) == Resolved(r) /\ ~ExpectedBody(r)

\* The entries of the body a list endpoint works on, and those of them that
\* carry a videoId.
SourceItems(r) ==
    IF UsesJsonApi(r)
    THEN SelectSeq(upstream[r].data.items, LAMBDA it : it.type = "video")
    ELSE Matching(upstream[r].data.elems, ListSel)
SourceCount(r) ==
    IF UsesJsonApi(r) THEN Len(upstream[r].data.items) ELSE Len(SourceItems(r))
HasVideoId(it) ==
    IF "videoId" \in DOMAIN it THEN ~Falsy(it.videoId)
    ELSE \E i \in 1..Len(it.children) :
            /\ it.children[i].sel = "h3 a"
            /\ ~Falsy(VideoIdOf(it.children[i].href))
WithVideoId(r) == SelectSeq(SourceItems(r), HasVideoId)

IsDownloadLink(el) ==
    el.sel = LinkSel /\ ~Falsy(el.href) /\ Includes(Trim(el.text), DownloadText)
DownloadLinks(r) == SelectSeq(upstream[r].data.elems, IsDownloadLink)

\* The fixed message of each handler's catch block, as written in the source.
GenericMessage(r) ==
    CASE request[r].base = "/api/popular" -> "Failed to fetch popular videos"
      [] request[r].base = "/api/search" ->
            IF program = 1 THEN "Failed to fetch search results from Invidious API"
            ELSE "Failed to fetch search results"
      [] request[r].base = "/api/video" -> "Failed to fetch video information"
      [] request[r].base = "/api/comments" -> "Failed to fetch comments"

\* C1: every API handler whose upstream GET resolved with a body of the
\* expected kind answers 200 with the mapped array (the object, for video
\* detail), however many items the body holds.
C1_ExpectedBodyGives200 ==
    \A r \in Reqs :
        (Done(r) /\ IsApi(r) /\ ExpectedBody(r)) =>
            /\ Len(responses[r]) = 1
            /\ Resp(r).status = 200
            /\ Resp(r).shape = (IF request[r].base = "/api/video" THEN "object" ELSE "array")

\* C2: on /api/popular and both /api/search handlers every item of a 200
\* response has a non-null videoId, the source items without one are absent
\* and the output is no longer than the source.
C2_EveryItemHasVideoId ==
    \A r \in Reqs :
        (Done(r) /\ request[r].base \in {"/api/popular", "/api/search"}
         /\ Resolved(r) /\ Resp(r).status = 200 /\ Resp(r).shape = "array") =>
            /\ \A i \in 1..Len(Resp(r).data) :
                  Resp(r).data[i].videoId.t = "string" /\ Resp(r).data[i].videoId.s # <<>>
            /\ Len(Resp(r).data) <= SourceCount(r)
            /\ Len(Resp(r).data) <= Len(WithVideoId(r))

\* C3 as stated: a rejected GET and a malformed or unexpectedly shaped body
\* alike are answered with 500 and the handler's generic error body.
C3_MalformedBodyGives500 ==
    \A r \in Reqs :
        (Done(r) /\ IsApi(r) /\ sent[r] # <<>> /\ (Rejected(r) \/ MalformedBody(r))) =>
            responses[r] = <<ErrorResponse(500, GenericMessage(r))>>

\* C3 as amended: a rejected GET (network error, non-2xx status) and every
\* exception thrown while extracting are answered with exactly one response,
\* status 500 and the handler's fixed error body, which holds nothing of the
\* error; an exception never leaves the request without its response.
C3_FailureGives500 ==
    \A r \in Reqs :
        /\ (Done(r) /\ IsApi(r) /\ (Rejected(r) \/ thrown[r] # NoError)) =>
              /\ responses[r] = <<ErrorResponse(500, GenericMessage(r))>>
              /\ Resp(r).error # thrown[r].message
              /\ \A e \in AxiosErrors : Resp(r).error # e.message
        /\ (Done(r) /\ Rejected(r)) => thrown[r] = upstream[r].err
        /\ thrown[r] # NoError => (Done(r) /\ Len(responses[r]) = 1)

\* The video handler answered 500 after its GET was rejected by the upstream.
C3_Witness ==
    \E r \in Reqs :
        /\ Done(r) /\ request[r].base = "/api/video" /\ Rejected(r)
        /\ thrown[r] \in AxiosErrors
        /\ Resp(r).status = 500

\* C4: /api/search without q (or with an empty one) answers 400 with an
\* error body and sends nothing upstream; with a q and a successful
\* upstream reply it answers 200 with an array.
C4_SearchContract ==
    \A r \in Reqs :
        (Done(r) /\ request[r].base = "/api/search") =>
            IF Falsy(request[r].q)
            THEN Resp(r).status = 400 /\ Resp(r).shape = "error" /\ sent[r] = <<>>
            ELSE ExpectedBody(r) => (Resp(r).status = 200 /\ Resp(r).shape = "array")

\* C5: a request to /api/video/:videoId or /api/comments/:videoId without
\* the videoId is answered 400 with a JSON error, and nothing is sent
\* upstream for it.
C5_MissingVideoIdGives400 ==
    \A r \in Reqs :
        (Done(r) /\ request[r].base \in ParamRoutes /\ request[r].seg = <<>>) =>
            Resp(r).status = 400 /\ Resp(r).shape = "error" /\ sent[r] = <<>>

\* C6: /api/video/:id whose watch page was fetched and holds download links
\* answers with an object whose formats list has one entry per download
\* link, each with a non-empty format and a non-empty url.
C6_FormatsOfKnownVideo ==
    \A r \in Reqs :
        (Done(r) /\ request[r].base = "/api/video" /\ ExpectedBody(r)
         /\ DownloadLinks(r) # <<>>) =>
            /\ Resp(r).status = 200 /\ Resp(r).shape = "object"
            /\ Len(Resp(r).data[1].formats) = Len(DownloadLinks(r))
            /\ \A i \in 1..Len(Resp(r).data[1].formats) :
                  /\ ~Falsy(Resp(r).data[1].formats[i].format)
                  /\ ~Falsy(Resp(r).data[1].formats[i].url)

\* C7: /health answers 200 "OK" and sends nothing upstream, and it can be
\* served in every state, whatever the other requests and their upstream
\* calls are doing.
C7_HealthAlwaysOk ==
    \A r \in Reqs :
        /\ (request[r].base = "/health") =>
              /\ Done(r)
              /\ responses[r] = <<TextResponse(200, "OK")>>
              /\ sent[r] = <<>>
              /\ upstream[r].state = "none"
        /\ (pc[r] = "idle") => ENABLED Health(r)

\* /health answered 200 while another request is stuck on a hung upstream
\* call and nothing was sent for the health request.
C7_Witness ==
    \E r \in Reqs : \E s \in Reqs \ {r} :
        /\ request[r].base = "/health" /\ Done(r) /\ Resp(r).status = 200
        /\ upstream[s].state = "hung" /\ pc[s] = "await"

\* C9: in markup extraction a missing element gives a null field instead of
\* a failure, and an item without its id is dropped while its siblings are
\* returned in the same 200 response.
C9_MissingElementsTolerated ==
    \A r \in Reqs :
        (Done(r) /\ UsesMarkup(r) /\ ExpectedBody(r)) =>
            /\ Resp(r).status = 200
            /\ request[r].base \in {"/api/popular", "/api/search"} =>
                  Len(Resp(r).data) = Len(WithVideoId(r))
            /\ request[r].base = "/api/comments" =>
                  Len(Resp(r).data) = Len(Matching(upstream[r].data.elems, CommentSel))

\* The rest of whichever handler request r is suspended in.
ResumeAny(r) ==
    \/ PopularResume(r) \/ SearchApiResume(r) \/ SearchMarkupResume(r)
    \/ VideoResume(r) \/ CommentsResume(r)

ParamsPresent(r) ==
    /\ IsApi(r)
    /\ request[r].base = "/api/search" => ~Falsy(request[r].q)
    /\ request[r].base \in ParamRoutes => request[r].seg # <<>>

C10_Linear ==
    \A r \in Reqs :
        /\ Len(sent[r]) <= 1 /\ Len(responses[r]) <= 1
        /\ pc[r] = "idle" => (sent[r] = <<>> /\ responses[r] = <<>>)
        /\ pc[r] = "await" => (ParamsPresent(r) /\ Len(sent[r]) = 1 /\ responses[r] = <<>>)
        /\ (Done(r) /\ ParamsPresent(r)) =>
              (Len(sent[r]) = 1 /\ Len(responses[r]) = 1 /\ Settled(r))
        /\ (Done(r) /\ ~ParamsPresent(r)) => sent[r] = <<>>
        /\ upstream[r].state \in {"pending", "hung"} => responses[r] = <<>>
        /\ (pc[r] = "await" /\ Settled(r)
            /\ \E s \in Reqs \ {r} : upstream[s].state = "hung") => ENABLED ResumeAny(r)

\* A step that touches one request leaves every other request as it was.
C10_OneRequestPerStep ==
    \A r \in Reqs :
        (<<pc[r], request[r], upstream[r], sent[r], responses[r], thrown[r]>>' #
         <<pc[r], request[r], upstream[r], sent[r], responses[r], thrown[r]>>) =>
            \A s \in Reqs \ {r} :
                <<pc[s], request[s], upstream[s], sent[s], responses[s], thrown[s]>>' =
                <<pc[s], request[s], upstream[s], sent[s], responses[s], thrown[s]>>

\* C10: a request that passed its parameter check issues exactly one GET,
\* responds exactly once and only after that GET settled, never issues a
\* second GET; a request whose GET never settles never responds, a request
\* whose GET settled can resume while another is hung, and no step of one
\* request changes another request.
C10_SingleLinearAttempt == [](C10_Linear) /\ [][C10_OneRequestPerStep]_vars

\* One request is stuck on a hung GET without a response while another,
\* whose single GET was rejected, has answered once.
C10_Witness ==
    \E r \in Reqs : \E s \in Reqs \ {r} :
        /\ upstream[r].state = "hung" /\ pc[r] = "await" /\ responses[r] = <<>>
        /\ Done(s) /\ request[s].base = "/api/popular" /\ Rejected(s)
        /\ Len(sent[s]) = 1 /\ Len(responses[s]) = 1

(***************************************************************************)
(* getAbsoluteUrl.                                                         *)
(***************************************************************************)
IsAbsolute(v) ==
    v.t = "string" /\ (StartsWith(v.s, HttpScheme) \/ StartsWith(v.s, HttpsScheme))

RECURSIVE StripTrailingSlashes(_)
StripTrailingSlashes(s) ==
    IF s # <<>> /\ s[Len(s)] = "/" THEN StripTrailingSlashes(SubSeq(s, 1, Len(s) - 1))
    ELSE s

RECURSIVE StripLeadingSlashes(_)
StripLeadingSlashes(s) ==
    IF s # <<>> /\ Head(s) = "/" THEN StripLeadingSlashes(Tail(s)) ELSE s

\* C8: getAbsoluteUrl returns an absolute URL unchanged, returns each of its
\* own non-null results unchanged, and joins a relative path (here with at
\* most one leading slash) to the configured origin with exactly one slash
\* between them, whether or not the origin ends in a slash.
C8_OneSlashJoin ==
    /\ (urlPc \in {"applied", "reapplied"} /\ IsAbsolute(urlPath)) => urlOut = urlPath
    /\ (urlPc = "reapplied" /\ urlOut # Null) => urlAgain = urlOut
    /\ (urlPc \in {"applied", "reapplied"} /\ ~Falsy(urlPath) /\ ~IsAbsolute(urlPath)
        /\ ~StartsWith(urlPath.s, <<"/", "/">>)) =>
            urlOut = Str(StripTrailingSlashes(INVIDIOUS_INSTANCE) \o <<"/">>
                         \o StripLeadingSlashes(urlPath.s))

====
